---- MODULE Spec2Model ----
(***************************************************************************)
(* A model of src/main.py: the portfolio statement pipeline                *)
(*   list_csv_files -> parse_csv -> extract_fund_data -> aggregate ->      *)
(*   plot_fund_distribution.                                               *)
(*                                                                         *)
(* Text is modelled as a sequence of characters, a character being a       *)
(* one-element TLA+ string.  The non-ASCII characters of the two section   *)
(* markers are written by their code points ("U+6295", ...).               *)
(***************************************************************************)
EXTENDS Integers, Sequences, FiniteSets, TLC

VARIABLES
    text,       \* parse_csv: content of the file being read
    sections,   \* parse_csv: returned sections / extract_fund_data: argument
    date_str,   \* extract_fund_data: the caller-supplied date
    fund_rows,  \* extract_fund_data: outcome (returned list or raised error)
    text2,      \* content rebuilt from `sections`, one blank line between
    sections2,  \* parse_csv of text2
    dir,        \* DATA_DIR: file name -> file content
    files,      \* aggregate_fund_data: list returned by list_csv_files
    idx,        \* aggregate_fund_data: position of the for loop in `files`
    all_data,   \* aggregate_fund_data: accumulated records
    df,         \* __main__: DataFrame returned by aggregate_fund_data
    pivot,      \* plot_fund_distribution: the date x fund table
    orig,       \* record order from which `pivot` was computed
    error,      \* uncaught exception that ended the run ("none" if none)
    pc          \* position of the run

vars == <<text, sections, date_str, fund_rows, text2, sections2, dir, files,
          idx, all_data, df, pivot, orig, error, pc>>

None == "None"

----------------------------------------------------------------------------
(* Bounds of the explored inputs.                                          *)

MaxLines == 4
MaxSections == 2
MaxRows == 2
MaxFiles == 3
MaxRecords == 3

----------------------------------------------------------------------------
(* Characters and str methods.                                             *)

\* The characters that occur in the explored inputs, in code point order.
CodeOrder ==
    <<"\t", "\n", " ", "+", ",", "-", ".", "/",
      "0", "1", "2", "3", "4", "5", "6", "7", "8", "9",
      "A", "B", "F", "G", "_",
      "a", "c", "e", "f", "i", "l", "n", "o", "p", "r", "s", "t", "v", "x",
      "U+4FE1", "U+5408", "U+6295", "U+8A08", "U+8A17", "U+8CC7", "U+91D1",
      "U+984D", "U+FF08">>

ord(c) == CHOOSE k \in 1..Len(CodeOrder) : CodeOrder[k] = c

\* str.__lt__: lexicographic comparison by code point.
RECURSIVE str_lt(_, _)
str_lt(a, b) ==
    IF b = <<>> THEN FALSE
    ELSE IF a = <<>> THEN TRUE
    ELSE IF a[1] # b[1] THEN ord(a[1]) < ord(b[1])
    ELSE str_lt(Tail(a), Tail(b))

\* sorted(): ascending list of the elements of a set of strings.
RECURSIVE sorted(_)
sorted(S) ==
    IF S = {} THEN <<>>
    ELSE LET m == CHOOSE x \in S : \A y \in S : x = y \/ str_lt(x, y)
         IN  <<m>> \o sorted(S \ {m})

isspace(c) == c \in {" ", "\t", "\n", "\r"}
isdigit(c) == c \in {"0", "1", "2", "3", "4", "5", "6", "7", "8", "9"}

RECURSIVE lstrip(_)
lstrip(s) ==
    IF s # <<>> /\ isspace(s[1]) THEN lstrip(Tail(s)) ELSE s

RECURSIVE rstrip(_)
rstrip(s) ==
    IF s # <<>> /\ isspace(s[Len(s)]) THEN rstrip(SubSeq(s, 1, Len(s) - 1))
    ELSE s

\* str.strip(): leading and trailing whitespace removed.
strip(s) == rstrip(lstrip(s))

startswith(s, p) == Len(s) >= Len(p) /\ SubSeq(s, 1, Len(p)) = p
endswith(s, p) ==
    Len(s) >= Len(p) /\ SubSeq(s, Len(s) - Len(p) + 1, Len(s)) = p

\* str.split(sep) for a one-character separator: always at least one field.
RECURSIVE split_loop(_, _, _, _, _)
split_loop(s, sep, k, cur, acc) ==
    IF k > Len(s) THEN Append(acc, cur)
    ELSE IF s[k] = sep THEN split_loop(s, sep, k + 1, <<>>, Append(acc, cur))
    ELSE split_loop(s, sep, k + 1, Append(cur, s[k]), acc)

split(s, sep) == split_loop(s, sep, 1, <<>>, <<>>)

\* str.replace(old, ""): every non-overlapping occurrence, left to right.
RECURSIVE remove_all(_, _)
remove_all(s, old) ==
    IF s = <<>> THEN <<>>
    ELSE IF startswith(s, old)
         THEN remove_all(SubSeq(s, Len(old) + 1, Len(s)), old)
    ELSE <<s[1]>> \o remove_all(Tail(s), old)

\* f.readlines(): the text cut after every newline, newlines kept.
RECURSIVE readlines_loop(_, _, _, _)
readlines_loop(t, k, cur, acc) ==
    IF k > Len(t) THEN (IF cur = <<>> THEN acc ELSE Append(acc, cur))
    ELSE IF t[k] = "\n"
         THEN readlines_loop(t, k + 1, <<>>, Append(acc, Append(cur, "\n")))
    ELSE readlines_loop(t, k + 1, Append(cur, t[k]), acc)

readlines(t) == readlines_loop(t, 1, <<>>, <<>>)

----------------------------------------------------------------------------
(* parse_csv                                                               *)

\* Faulty variant of parse_loop: the section still open at end of file is
\* not appended.
RECURSIVE parse_loop_drops_last(_, _, _, _)
parse_loop_drops_last(lines, k, secs, current_section) ==
    IF k > Len(lines) THEN secs
    ELSE IF strip(lines[k]) = <<>>
         THEN IF current_section # <<>>
              THEN parse_loop_drops_last(lines, k + 1,
                                         Append(secs, current_section), <<>>)
              ELSE parse_loop_drops_last(lines, k + 1, secs, current_section)
    ELSE parse_loop_drops_last(lines, k + 1, secs,
                               Append(current_section, strip(lines[k])))

\* Faulty variant of parse_loop: the line is appended as read, not trimmed.
RECURSIVE parse_loop_keeps_raw(_, _, _, _)
parse_loop_keeps_raw(lines, k, secs, current_section) ==
    IF k > Len(lines)
    THEN IF current_section # <<>> THEN Append(secs, current_section)
         ELSE secs
    ELSE IF strip(lines[k]) = <<>>
         THEN IF current_section # <<>>
              THEN parse_loop_keeps_raw(lines, k + 1,
                                        Append(secs, current_section), <<>>)
              ELSE parse_loop_keeps_raw(lines, k + 1, secs, current_section)
    ELSE parse_loop_keeps_raw(lines, k + 1, secs,
                              Append(current_section, lines[k]))

\* Faulty variant of parse_loop: a blank line closes the current section
\* even when it is empty.
RECURSIVE parse_loop_emits_empty(_, _, _, _)
parse_loop_emits_empty(lines, k, secs, current_section) ==
    IF k > Len(lines)
    THEN IF current_section # <<>> THEN Append(secs, current_section)
         ELSE secs
    ELSE IF strip(lines[k]) = <<>>
         THEN parse_loop_emits_empty(lines, k + 1,
                                     Append(secs, current_section), <<>>)
    ELSE parse_loop_emits_empty(lines, k + 1, secs,
                                Append(current_section, strip(lines[k])))

\* The for loop of parse_csv and the append that follows it.
RECURSIVE parse_loop(_, _, _, _)
parse_loop(lines, k, secs, current_section) ==
    IF k > Len(lines)
    THEN IF current_section # <<>> THEN Append(secs, current_section)
         ELSE secs
    ELSE IF strip(lines[k]) = <<>>
         THEN IF current_section # <<>>
              THEN parse_loop(lines, k + 1, Append(secs, current_section), <<>>)
              ELSE parse_loop(lines, k + 1, secs, current_section)
    ELSE parse_loop(lines, k + 1, secs,
                    Append(current_section, strip(lines[k])))

parse_csv(content) == parse_loop(readlines(content), 1, <<>>, <<>>)

----------------------------------------------------------------------------
(* extract_fund_data                                                       *)

\* "U+6295 U+8CC7 U+4FE1 U+8A17 U+FF08 U+91D1 U+984D /": the title prefix
\* of a mutual fund section (by amount).
FUND_MARKER ==
    <<"U+6295", "U+8CC7", "U+4FE1", "U+8A17", "U+FF08", "U+91D1", "U+984D", "/">>

\* "U+5408 U+8A08": the title suffix of a totals section.
TOTAL_MARKER == <<"U+5408", "U+8A08">>

digit_value(c) == ord(c) - ord("0")

\* Value of a run of digits and underscores, read left to right.
RECURSIVE digits_value(_, _)
digits_value(s, acc) ==
    IF s = <<>> THEN acc
    ELSE IF s[1] = "_" THEN digits_value(Tail(s), acc)
    ELSE digits_value(Tail(s), 10 * acc + digit_value(s[1]))

\* Decimal digits, single underscores allowed between two digits only.
int_digits_ok(s) ==
    /\ s # <<>>
    /\ \A k \in 1..Len(s) : isdigit(s[k]) \/ s[k] = "_"
    /\ isdigit(s[1]) /\ isdigit(s[Len(s)])
    /\ \A k \in 1..(Len(s) - 1) : ~(s[k] = "_" /\ s[k + 1] = "_")

\* int(str): surrounding whitespace ignored, optional sign, decimal digits;
\* anything else raises ValueError.
int(s) ==
    LET t == strip(s)
        signed == t # <<>> /\ t[1] \in {"+", "-"}
        body == IF signed THEN Tail(t) ELSE t
    IN  IF int_digits_ok(body)
        THEN [exc |-> "none",
              val |-> IF signed /\ t[1] = "-" THEN 0 - digits_value(body, 0)
                      ELSE digits_value(body, 0)]
        ELSE [exc |-> "ValueError", val |-> None]

\* The try block for one row: values[0], int(values[6]), the dictionary.
row_record(row, date) ==
    LET values == split(row, ",")
    IN  IF Len(values) < 1 THEN [exc |-> "IndexError", val |-> None]
        ELSE IF Len(values) < 7 THEN [exc |-> "IndexError", val |-> None]
        ELSE IF int(values[7]).exc # "none"
             THEN [exc |-> int(values[7]).exc, val |-> None]
        ELSE [exc |-> "none",
              val |-> [date |-> date, fund |-> values[1],
                       eval_amount |-> int(values[7]).val]]

\* Faulty variant of rows_loop: the first row that raises ends the loop.
RECURSIVE rows_loop_stops_at_bad_row(_, _, _, _)
rows_loop_stops_at_bad_row(rows, k, date, acc) ==
    IF k > Len(rows) THEN acc
    ELSE LET r == row_record(rows[k], date)
         IN  IF r.exc = "none"
             THEN rows_loop_stops_at_bad_row(rows, k + 1, date, Append(acc, r.val))
             ELSE acc

\* The inner for loop: `except (IndexError, ValueError): continue`.
RECURSIVE rows_loop(_, _, _, _)
rows_loop(rows, k, date, acc) ==
    IF k > Len(rows) THEN acc
    ELSE LET r == row_record(rows[k], date)
         IN  IF r.exc = "none" THEN rows_loop(rows, k + 1, date, Append(acc, r.val))
             ELSE rows_loop(rows, k + 1, date, acc)

\* Faulty variant of section_selected: the totals suffix is not tested.
section_selected_ignores_total(section) == startswith(section[1], FUND_MARKER)

\* The condition that selects a section; section[0] raises on an empty one.
section_selected(section) ==
    startswith(section[1], FUND_MARKER) /\ ~endswith(section[1], TOTAL_MARKER)

\* The outer for loop.
RECURSIVE sections_loop(_, _, _, _)
sections_loop(secs, k, date, acc) ==
    IF k > Len(secs) THEN [exc |-> "none", val |-> acc]
    ELSE IF secs[k] = <<>> THEN [exc |-> "IndexError", val |-> None]
    ELSE IF section_selected(secs[k])
         THEN sections_loop(secs, k + 1, date,
                  rows_loop(SubSeq(secs[k], 3, Len(secs[k])), 1, date, acc))
    ELSE sections_loop(secs, k + 1, date, acc)

extract_fund_data(secs, date) == sections_loop(secs, 1, date, <<>>)

----------------------------------------------------------------------------
(* Values of the variables a specification leaves unused.                  *)

NoFrame == [columns |-> {}, rows |-> <<>>]
NoPivot == [index |-> <<>>, columns |-> <<>>, cells |-> <<>>]
NoResult == [exc |-> "none", val |-> <<>>]

----------------------------------------------------------------------------
(* SpecParse: parse_csv on file contents of up to MaxLines lines, then     *)
(* either extract_fund_data on the result or a second parse_csv on the     *)
(* sections written back with one blank line between them.                 *)

DATE_1 == <<"2", "0", "2", "4", "/", "0", "1", "/", "0", "1">>
DATE_2 == <<"2", "0", "2", "4", "/", "0", "2", "/", "0", "1">>

TITLE_FUND == FUND_MARKER \o <<"A">>
TITLE_FUND_TOTAL == FUND_MARKER \o <<"A">> \o TOTAL_MARKER
TITLE_OTHER == <<"B">> \o FUND_MARKER
TITLE_OTHER_TOTAL == <<"B">> \o TOTAL_MARKER

ROW_F_500 == <<"F", ",", ",", ",", ",", ",", ",", "5", "0", "0">>

\* Lines of the explored files, without their newline: empty, whitespace
\* only, padded text, a fund section title, a data row.
LineBodies ==
    { <<>>, <<" ", "\t">>, <<" ", "a", " ">>, TITLE_FUND, ROW_F_500 }

SeqsUpTo(S, n) == UNION { [1..m -> S] : m \in 0..n }

\* The file whose lines are `bodies`; the last one ends with a newline iff nl.
RECURSIVE content_of(_, _)
content_of(bodies, nl) ==
    IF bodies = <<>> THEN <<>>
    ELSE IF Len(bodies) = 1 THEN bodies[1] \o (IF nl THEN <<"\n">> ELSE <<>>)
    ELSE bodies[1] \o <<"\n">> \o content_of(Tail(bodies), nl)

Contents ==
    { content_of(b, nl) : b \in SeqsUpTo(LineBodies, MaxLines), nl \in BOOLEAN }

\* The sections written out again, one line each, a blank line between two
\* consecutive sections.
RECURSIVE join_sections(_)
join_sections(secs) ==
    IF secs = <<>> THEN <<>>
    ELSE content_of(secs[1], TRUE)
         \o (IF Len(secs) > 1 THEN <<"\n">> ELSE <<>>)
         \o join_sections(Tail(secs))

InitParse ==
    /\ text \in Contents
    /\ sections = <<>> /\ date_str = DATE_1 /\ fund_rows = NoResult
    /\ text2 = <<>> /\ sections2 = <<>>
    /\ dir = <<>> /\ files = <<>> /\ idx = 0 /\ all_data = <<>>
    /\ df = NoFrame /\ pivot = NoPivot /\ orig = <<>>
    /\ error = "none" /\ pc = "start"

Parse ==
    /\ pc = "start"
    /\ sections' = parse_csv(text)
    /\ pc' = "parsed"
    /\ UNCHANGED <<text, date_str, fund_rows, text2, sections2, dir, files,
                   idx, all_data, df, pivot, orig, error>>

ExtractParsed ==
    /\ pc = "parsed"
    /\ fund_rows' = extract_fund_data(sections, date_str)
    /\ pc' = "extracted"
    /\ UNCHANGED <<text, sections, date_str, text2, sections2, dir, files,
                   idx, all_data, df, pivot, orig, error>>

Rejoin ==
    /\ pc = "parsed"
    /\ text2' = join_sections(sections)
    /\ pc' = "rejoined"
    /\ UNCHANGED <<text, sections, date_str, fund_rows, sections2, dir, files,
                   idx, all_data, df, pivot, orig, error>>

Reparse ==
    /\ pc = "rejoined"
    /\ sections2' = parse_csv(text2)
    /\ pc' = "reparsed"
    /\ UNCHANGED <<text, sections, date_str, fund_rows, text2, dir, files,
                   idx, all_data, df, pivot, orig, error>>

NextParse == Parse \/ ExtractParsed \/ Rejoin \/ Reparse

SpecParse == InitParse /\ [][NextParse]_vars

----------------------------------------------------------------------------
(* Properties of parse_csv (SpecParse).                                    *)

IsBlank(line) == \A k \in 1..Len(line) : isspace(line[k])

\* t is `line` without its leading and trailing whitespace.
IsTrimOf(t, line) ==
    /\ t # <<>> /\ ~isspace(t[1]) /\ ~isspace(t[Len(t)])
    /\ \E i \in 1..Len(line) :
          /\ i + Len(t) - 1 <= Len(line)
          /\ SubSeq(line, i, i + Len(t) - 1) = t
          /\ \A k \in 1..Len(line) :
                (k < i \/ k > i + Len(t) - 1) => isspace(line[k])

\* The lines of the sections in order, each with the number of its section.
RECURSIVE numbered_lines(_, _)
numbered_lines(secs, s) ==
    IF s > Len(secs) THEN <<>>
    ELSE [j \in 1..Len(secs[s]) |-> [sec |-> s, line |-> secs[s][j]]]
         \o numbered_lines(secs, s + 1)

\* The positions of the non-blank lines, ascending.
NonBlankPositions(lines) ==
    LET keep(i) == ~IsBlank(lines[i])
    IN  SelectSeq([i \in 1..Len(lines) |-> i], keep)

\* C1: parse_csv returns exactly the maximal runs of consecutive non-blank
\* lines, each line trimmed, in the original order: no section is empty,
\* every non-blank line (the last run included) is returned once, and two
\* non-blank lines share a section iff no blank line lies between them.
C1_MaximalRuns ==
    pc = "parsed" =>
        LET lines == readlines(text)
            nb == NonBlankPositions(lines)
            out == numbered_lines(sections, 1)
        IN  /\ \A s \in 1..Len(sections) : sections[s] # <<>>
            /\ Len(out) = Len(nb)
            /\ \A k \in 1..Len(nb) : IsTrimOf(out[k].line, lines[nb[k]])
            /\ \A k, m \in 1..Len(nb) :
                  k < m =>
                     ((out[k].sec = out[m].sec)
                        <=> (\A i \in nb[k]..nb[m] : ~IsBlank(lines[i])))

\* A padded line, two blank lines in a row, and a last run that no newline
\* or blank line ends: two sections come back.
C1_Witness ==
    /\ pc = "parsed"
    /\ text = content_of(<<<<" ", "a", " ">>, <<>>, <<" ", "\t">>, ROW_F_500>>,
                         FALSE)
    /\ sections = << <<<<"a">>>>, <<ROW_F_500>> >>

\* C9: writing the returned sections back with one blank line between
\* consecutive sections and splitting again returns the same sections.
C9_Idempotent == pc = "reparsed" => sections2 = sections

C9_Witness ==
    /\ pc = "reparsed"
    /\ Len(sections) = 2
    /\ \E s \in 1..2 : Len(sections[s]) = 2
    /\ text2 # text

\* C10: extract_fund_data applied to the output of parse_csv raises no
\* error, and sections of one or two lines yield no record.
C10_ExtractAfterParseSafe ==
    pc = "extracted" =>
        /\ fund_rows.exc = "none"
        /\ (\A s \in 1..Len(sections) : Len(sections[s]) <= 2)
              => fund_rows.val = <<>>

\* A selected section made of a title and one more line, after blank lines.
C10_Witness ==
    /\ pc = "extracted"
    /\ sections = << <<TITLE_FUND, ROW_F_500>> >>
    /\ IsBlank(readlines(text)[1])
    /\ fund_rows = [exc |-> "none", val |-> <<>>]

----------------------------------------------------------------------------
(* SpecExtract: extract_fund_data on lists of up to MaxSections sections   *)
(* holding up to MaxRows data rows in all.  Every section has a title and  *)
(* one header line; the header line looks like a valid data row.           *)

ROW_G_WIDE == <<"G", ",", ",", ",", ",", ",", ",", " ", "-", "7", ",", "x">>
ROW_SHORT == <<"G", ",", ",", ",", ",", "7", "0", "0">>
ROW_NOT_INT == <<"F", ",", ",", ",", ",", ",", ",", "5", "x">>
HEADER_ROW == <<"A", ",", ",", ",", ",", ",", ",", "9">>

Titles == {TITLE_FUND, TITLE_FUND_TOTAL, TITLE_OTHER, TITLE_OTHER_TOTAL}
Rows == {ROW_F_500, ROW_G_WIDE, ROW_SHORT, ROW_NOT_INT}

RECURSIVE TotalLen(_)
TotalLen(qs) == IF qs = <<>> THEN 0 ELSE Len(qs[1]) + TotalLen(Tail(qs))

InitExtract ==
    /\ \E n \in 0..MaxSections :
          \E bodies \in [1..n -> SeqsUpTo(Rows, MaxRows)] :
             /\ TotalLen(bodies) <= MaxRows
             /\ \E titles \in [1..n -> Titles] :
                   sections = [k \in 1..n |-> <<titles[k], HEADER_ROW>> \o bodies[k]]
    /\ date_str \in {DATE_1, DATE_2}
    /\ text = <<>> /\ fund_rows = NoResult
    /\ text2 = <<>> /\ sections2 = <<>>
    /\ dir = <<>> /\ files = <<>> /\ idx = 0 /\ all_data = <<>>
    /\ df = NoFrame /\ pivot = NoPivot /\ orig = <<>>
    /\ error = "none" /\ pc = "start"

Extract ==
    /\ pc = "start"
    /\ fund_rows' = extract_fund_data(sections, date_str)
    /\ pc' = "extracted"
    /\ UNCHANGED <<text, sections, date_str, text2, sections2, dir, files,
                   idx, all_data, df, pivot, orig, error>>

NextExtract == Extract

SpecExtract == InitExtract /\ [][NextExtract]_vars

----------------------------------------------------------------------------
(* Properties of extract_fund_data (SpecExtract).                          *)

NumCommas(row) == Cardinality({k \in 1..Len(row) : row[k] = ","})

\* At least 7 comma-separated columns, column 6 an integer literal.
ValidRow(row) ==
    NumCommas(row) >= 6 /\ int(split(row, ",")[7]).exc = "none"

\* One record per valid line after the first two, in order.
ExpectedRecords(section, date) ==
    LET good == SelectSeq(SubSeq(section, 3, Len(section)), ValidRow)
    IN  [k \in 1..Len(good) |->
            [date |-> date,
             fund |-> split(good[k], ",")[1],
             eval_amount |-> int(split(good[k], ",")[7]).val]]

RECURSIVE ExpectedAll(_, _, _)
ExpectedAll(secs, k, date) ==
    IF k > Len(secs) THEN <<>>
    ELSE (IF section_selected(secs[k]) THEN ExpectedRecords(secs[k], date)
          ELSE <<>>)
         \o ExpectedAll(secs, k + 1, date)

\* C2: in every selected section the first two lines are skipped and each
\* later line, in order, gives exactly one record (supplied date, column 0,
\* integer value of column 6) when it has at least 7 columns and column 6 is
\* an integer, and no record otherwise; later rows and sections are still
\* extracted after a dropped row.
C2_OneRecordPerValidRow ==
    pc = "extracted" =>
        /\ fund_rows.exc = "none"
        /\ fund_rows.val = ExpectedAll(sections, 1, date_str)

\* A row of 5 columns and a row whose column 6 is no integer are dropped;
\* the rows after them, in the same and in the next section, are extracted.
C2_Witness ==
    /\ pc = "extracted"
    /\ \/ /\ sections = << <<TITLE_FUND, HEADER_ROW,
                             ROW_SHORT, ROW_G_WIDE>> >>
          /\ fund_rows.val =
                <<[date |-> date_str, fund |-> <<"G">>, eval_amount |-> -7]>>
       \/ /\ sections = << <<TITLE_FUND, HEADER_ROW, ROW_NOT_INT>>,
                           <<TITLE_FUND, HEADER_ROW, ROW_F_500>> >>
          /\ fund_rows.val =
                <<[date |-> date_str, fund |-> <<"F">>, eval_amount |-> 500]>>

\* The title starts with the fund marker and does not end with the totals
\* marker.
Qualifying(section) ==
    LET title == section[1]
        n == Len(title)
    IN  /\ n >= Len(FUND_MARKER)
        /\ \A k \in 1..Len(FUND_MARKER) : title[k] = FUND_MARKER[k]
        /\ ~(n >= 2 /\ title[n - 1] = "U+5408" /\ title[n] = "U+8A08")

\* C3: only sections whose title starts with the fund marker and does not
\* end with the totals marker contribute records: removing every other
\* section leaves the result unchanged, and without a qualifying section
\* the result is empty whatever the rows are.
C3_OnlyQualifyingSectionsContribute ==
    pc = "extracted" =>
        /\ fund_rows = extract_fund_data(SelectSeq(sections, Qualifying), date_str)
        /\ (\A k \in 1..Len(sections) : ~Qualifying(sections[k]))
              => fund_rows.val = <<>>

\* A totals section with a valid row contributes nothing; the fund section
\* next to it does.
C3_Witness ==
    /\ pc = "extracted"
    /\ sections = << <<TITLE_FUND_TOTAL, HEADER_ROW, ROW_F_500>>,
                     <<TITLE_FUND, HEADER_ROW, ROW_G_WIDE>> >>
    /\ fund_rows.val =
          <<[date |-> date_str, fund |-> <<"G">>, eval_amount |-> -7]>>

----------------------------------------------------------------------------
(* list_csv_files and the date of a file name                              *)

CSV_SUFFIX == <<".", "c", "s", "v">>
NAME_PREFIX == <<"p", "o", "r", "t", "f", "o", "l", "i", "o", "_">>

\* Faulty variant of list_csv_files: directory order (here descending)
\* instead of sorted order.
RECURSIVE reversed(_)
reversed(q) == IF q = <<>> THEN <<>> ELSE Append(reversed(Tail(q)), q[1])

list_csv_files_unsorted(d) ==
    reversed(sorted({n \in DOMAIN d : endswith(n, CSV_SUFFIX)}))

\* sorted(list(DATA_DIR.glob("*.csv"))): d maps the names in DATA_DIR to
\* their contents.
list_csv_files(d) == sorted({n \in DOMAIN d : endswith(n, CSV_SUFFIX)})

\* Path.stem: the name without its last suffix.
stem(name) ==
    LET dots == {k \in 2..Len(name) : name[k] = "."}
    IN  IF dots = {} THEN name
        ELSE SubSeq(name, 1, (CHOOSE k \in dots : \A j \in dots : j <= k) - 1)

char_at(s, p) == IF p >= 1 /\ p <= Len(s) THEN s[p] ELSE "EOS"

\* %m is 1[0-2]|0[1-9]|[1-9]; the alternatives are tried in this order.
month_alt_matches(a, s, p) ==
    CASE a = 1 -> char_at(s, p) = "1" /\ char_at(s, p + 1) \in {"0", "1", "2"}
      [] a = 2 -> char_at(s, p) = "0"
                  /\ isdigit(char_at(s, p + 1)) /\ char_at(s, p + 1) # "0"
      [] a = 3 -> isdigit(char_at(s, p)) /\ char_at(s, p) # "0"

month_alt_len(a) == IF a = 3 THEN 1 ELSE 2

\* %d is 3[0-1]|[1-2]\d|0[1-9]|[1-9]| [1-9]; tried in this order.
day_alt_matches(a, s, p) ==
    CASE a = 1 -> char_at(s, p) = "3" /\ char_at(s, p + 1) \in {"0", "1"}
      [] a = 2 -> char_at(s, p) \in {"1", "2"} /\ isdigit(char_at(s, p + 1))
      [] a = 3 -> char_at(s, p) = "0"
                  /\ isdigit(char_at(s, p + 1)) /\ char_at(s, p + 1) # "0"
      [] a = 4 -> isdigit(char_at(s, p)) /\ char_at(s, p) # "0"
      [] a = 5 -> char_at(s, p) = " "
                  /\ isdigit(char_at(s, p + 1)) /\ char_at(s, p + 1) # "0"

day_alt_len(a) == IF a = 4 THEN 1 ELSE 2

is_leap(y) == (y % 4 = 0 /\ y % 100 # 0) \/ y % 400 = 0

days_in_month(y, m) ==
    IF m = 2 THEN (IF is_leap(y) THEN 29 ELSE 28)
    ELSE IF m \in {4, 6, 9, 11} THEN 30 ELSE 31

\* datetime.strptime(s, "%Y%m%d"): the regular expression
\* (\d\d\d\d)(1[0-2]|0[1-9]|[1-9])(3[0-1]|[1-2]\d|0[1-9]|[1-9]| [1-9]) is
\* matched at the start of s with backtracking; text left over after the
\* match, or a date that does not exist, raises ValueError.
strptime(s) ==
    LET bad == [exc |-> "ValueError", y |-> 0, m |-> 0, d |-> 0]
        year_ok == \A k \in 1..4 : isdigit(char_at(s, k))
        day_alts(p) ==
            LET ok(a) == day_alt_matches(a, s, p)
            IN  SelectSeq(<<1, 2, 3, 4, 5>>, ok)
        month_alts ==
            LET ok(a) == month_alt_matches(a, s, 5)
                        /\ day_alts(5 + month_alt_len(a)) # <<>>
            IN  SelectSeq(<<1, 2, 3>>, ok)
    IN  IF ~year_ok \/ month_alts = <<>> THEN bad
        ELSE LET ma == month_alts[1]
                 dp == 5 + month_alt_len(ma)
                 da == day_alts(dp)[1]
                 y == digits_value(SubSeq(s, 1, 4), 0)
                 m == digits_value(SubSeq(s, 5, dp - 1), 0)
                 d == int(SubSeq(s, dp, dp + day_alt_len(da) - 1)).val
             IN  IF dp + day_alt_len(da) - 1 # Len(s) THEN bad
                 ELSE IF y < 1 \/ d > days_in_month(y, m) THEN bad
                 ELSE [exc |-> "none", y |-> y, m |-> m, d |-> d]

RECURSIVE decimal(_)
decimal(n) ==
    IF n < 10 THEN <<CodeOrder[ord("0") + n]>>
    ELSE Append(decimal(n \div 10), CodeOrder[ord("0") + (n % 10)])

two_digits(n) == IF n < 10 THEN <<"0">> \o decimal(n) ELSE decimal(n)

\* strftime("%Y/%m/%d") (years of four digits).
strftime(t) == decimal(t.y) \o <<"/">> \o two_digits(t.m) \o <<"/">> \o two_digits(t.d)

\* Lines 85-86: the date string of a file, or the ValueError of strptime.
file_date(name) ==
    LET t == strptime(remove_all(stem(name), NAME_PREFIX))
    IN  IF t.exc = "none" THEN [exc |-> "none", val |-> strftime(t)]
        ELSE [exc |-> t.exc, val |-> <<>>]

----------------------------------------------------------------------------
(* pandas: DataFrame, groupby/sum, unstack                                 *)

\* pd.DataFrame(list of dictionaries): the columns are the keys of the
\* dictionaries; an empty list gives a frame without columns.
DataFrame(records) ==
    [columns |-> IF records = <<>> THEN {} ELSE {"date", "fund", "eval_amount"},
     rows |-> records]

\* Faulty variant of group_sums: a later row of a group replaces the sum.
RECURSIVE group_sums_overwrites(_, _, _)
group_sums_overwrites(rows, k, acc) ==
    IF k > Len(rows) THEN acc
    ELSE LET key == <<rows[k].date, rows[k].fund>>
         IN  group_sums_overwrites(rows, k + 1,
                 IF key \in DOMAIN acc
                 THEN [acc EXCEPT ![key] = rows[k].eval_amount]
                 ELSE acc @@ (key :> rows[k].eval_amount))

\* Faulty variant of group_sums: only the first row of a group is kept.
RECURSIVE group_sums_keeps_first(_, _, _)
group_sums_keeps_first(rows, k, acc) ==
    IF k > Len(rows) THEN acc
    ELSE LET key == <<rows[k].date, rows[k].fund>>
         IN  group_sums_keeps_first(rows, k + 1,
                 IF key \in DOMAIN acc THEN acc
                 ELSE acc @@ (key :> rows[k].eval_amount))

\* groupby(["date", "fund"])["eval_amount"].sum(): the rows are read in
\* order, each added to the sum of its (date, fund) group.
RECURSIVE group_sums(_, _, _)
group_sums(rows, k, acc) ==
    IF k > Len(rows) THEN acc
    ELSE LET key == <<rows[k].date, rows[k].fund>>
         IN  group_sums(rows, k + 1,
                 IF key \in DOMAIN acc
                 THEN [acc EXCEPT ![key] = @ + rows[k].eval_amount]
                 ELSE acc @@ (key :> rows[k].eval_amount))

\* unstack(fill_value=0): sorted dates as rows, sorted funds as columns,
\* 0 where a (date, fund) group does not exist.
unstack(series) ==
    LET dates == {key[1] : key \in DOMAIN series}
        funds == {key[2] : key \in DOMAIN series}
    IN  [index |-> sorted(dates),
         columns |-> sorted(funds),
         cells |-> [key \in dates \X funds |->
                       IF key \in DOMAIN series THEN series[key] ELSE 0]]

\* Lines 101-105 of plot_fund_distribution: groupby raises KeyError when the
\* frame has no "date" or "fund" column.
pivot_of(frame) ==
    IF ~({"date", "fund"} \subseteq frame.columns)
    THEN [exc |-> "KeyError", val |-> NoPivot]
    ELSE [exc |-> "none", val |-> unstack(group_sums(frame.rows, 1, <<>>))]

----------------------------------------------------------------------------
(* SpecRun: __main__ on a directory of up to MaxFiles files.               *)

DIGITS_20240101 == <<"2", "0", "2", "4", "0", "1", "0", "1">>
DIGITS_20240201 == <<"2", "0", "2", "4", "0", "2", "0", "1">>
DIGITS_20240230 == <<"2", "0", "2", "4", "0", "2", "3", "0">>
DIGITS_2024111 == <<"2", "0", "2", "4", "1", "1", "1">>
DIGITS_20240301 == <<"2", "0", "2", "4", "0", "3", "0", "1">>

FILE_JAN == NAME_PREFIX \o DIGITS_20240101 \o CSV_SUFFIX
FILE_FEB == NAME_PREFIX \o DIGITS_20240201 \o CSV_SUFFIX
FILE_FEB_30 == NAME_PREFIX \o DIGITS_20240230 \o CSV_SUFFIX
FILE_SEVEN_DIGITS == NAME_PREFIX \o DIGITS_2024111 \o CSV_SUFFIX
FILE_NO_PREFIX == DIGITS_20240301 \o CSV_SUFFIX
FILE_NOTES == <<"n", "o", "t", "e", "s">> \o CSV_SUFFIX
FILE_TXT == NAME_PREFIX \o DIGITS_20240101 \o <<".", "t", "x", "t">>

FileNames ==
    {FILE_JAN, FILE_FEB, FILE_FEB_30, FILE_SEVEN_DIGITS, FILE_NO_PREFIX,
     FILE_NOTES, FILE_TXT}

ROW_F_700 == <<"F", ",", ",", ",", ",", ",", ",", "7", "0", "0">>

\* One fund section in which fund F appears twice.
CONTENT_F_TWICE ==
    content_of(<<TITLE_FUND, HEADER_ROW, ROW_F_500, ROW_F_700>>, TRUE)

\* A fund section with fund G and a totals section.
CONTENT_G_AND_TOTAL ==
    content_of(<<TITLE_FUND, HEADER_ROW, ROW_G_WIDE, <<>>,
                 TITLE_FUND_TOTAL, HEADER_ROW, ROW_F_500>>, FALSE)

\* No fund section.
CONTENT_NO_FUND == content_of(<<TITLE_OTHER, HEADER_ROW, ROW_F_500>>, TRUE)

FileContents == {CONTENT_F_TWICE, CONTENT_G_AND_TOTAL, CONTENT_NO_FUND}

Directories ==
    UNION { [names -> FileContents] :
              names \in {ns \in SUBSET FileNames : Cardinality(ns) <= MaxFiles} }

InitRun ==
    /\ dir \in Directories
    /\ text = <<>> /\ sections = <<>> /\ date_str = <<>>
    /\ fund_rows = NoResult /\ text2 = <<>> /\ sections2 = <<>>
    /\ files = <<>> /\ idx = 0 /\ all_data = <<>>
    /\ df = NoFrame /\ pivot = NoPivot /\ orig = <<>>
    /\ error = "none" /\ pc = "start"

\* aggregate_fund_data, line 83: the call of list_csv_files.
ListFiles ==
    /\ pc = "start"
    /\ files' = list_csv_files(dir)
    /\ idx' = 1
    /\ pc' = "loop"
    /\ UNCHANGED <<text, sections, date_str, fund_rows, text2, sections2, dir,
                   all_data, df, pivot, orig, error>>

\* Faulty variant of AbortOnFileName: the file is skipped and the loop goes on.
SkipOnFileName ==
    /\ pc = "loop" /\ idx <= Len(files)
    /\ file_date(files[idx]).exc # "none"
    /\ idx' = idx + 1
    /\ UNCHANGED <<text, sections, date_str, fund_rows, text2, sections2, dir,
                   files, all_data, df, pivot, orig, error, pc>>

\* Lines 85-86 raise: nothing catches the ValueError, the run ends.
AbortOnFileName ==
    /\ pc = "loop" /\ idx <= Len(files)
    /\ file_date(files[idx]).exc # "none"
    /\ error' = file_date(files[idx]).exc
    /\ pc' = "aborted"
    /\ UNCHANGED <<text, sections, date_str, fund_rows, text2, sections2, dir,
                   files, idx, all_data, df, pivot, orig>>

\* Lines 85-91: one iteration of the for loop on a file whose date parses.
ProcessFile ==
    /\ pc = "loop" /\ idx <= Len(files)
    /\ file_date(files[idx]).exc = "none"
    /\ date_str' = file_date(files[idx]).val
    /\ text' = dir[files[idx]]
    /\ sections' = parse_csv(dir[files[idx]])
    /\ fund_rows' = extract_fund_data(sections', date_str')
    /\ IF fund_rows'.exc = "none"
       THEN /\ all_data' = all_data \o fund_rows'.val
            /\ idx' = idx + 1
            /\ UNCHANGED <<error, pc>>
       ELSE /\ error' = fund_rows'.exc
            /\ pc' = "aborted"
            /\ UNCHANGED <<all_data, idx>>
    /\ UNCHANGED <<text2, sections2, dir, files, df, pivot, orig>>

\* Line 93 and line 134: the frame is returned to __main__.
ReturnFrame ==
    /\ pc = "loop" /\ idx > Len(files)
    /\ df' = DataFrame(all_data)
    /\ pc' = "plot"
    /\ UNCHANGED <<text, sections, date_str, fund_rows, text2, sections2, dir,
                   files, idx, all_data, pivot, orig, error>>

\* plot_fund_distribution: the table is built and handed to the figure.
Plot ==
    /\ pc = "plot"
    /\ pivot_of(df).exc = "none"
    /\ pivot' = pivot_of(df).val
    /\ orig' = df.rows
    /\ pc' = "done"
    /\ UNCHANGED <<text, sections, date_str, fund_rows, text2, sections2, dir,
                   files, idx, all_data, df, error>>

\* plot_fund_distribution: groupby raises, nothing catches it.
PlotRaises ==
    /\ pc = "plot"
    /\ pivot_of(df).exc # "none"
    /\ error' = pivot_of(df).exc
    /\ pc' = "aborted"
    /\ UNCHANGED <<text, sections, date_str, fund_rows, text2, sections2, dir,
                   files, idx, all_data, df, pivot, orig>>

NextRun ==
    ListFiles \/ AbortOnFileName \/ ProcessFile \/ ReturnFrame \/ Plot
        \/ PlotRaises

SpecRun == InitRun /\ [][NextRun]_vars

----------------------------------------------------------------------------
(* SpecAgg: the end of aggregate_fund_data and plot_fund_distribution on   *)
(* every list of up to MaxRecords records; once the table is built the     *)
(* records are reordered and the table of the new order is compared.       *)

RecordPool ==
    [date : {DATE_1, DATE_2}, fund : {<<"F">>, <<"G">>},
     eval_amount : {500, 700}]

InitAgg ==
    /\ all_data \in SeqsUpTo(RecordPool, MaxRecords)
    /\ files = <<>> /\ idx = 1 /\ pc = "loop"
    /\ text = <<>> /\ sections = <<>> /\ date_str = <<>>
    /\ fund_rows = NoResult /\ text2 = <<>> /\ sections2 = <<>>
    /\ dir = <<>> /\ df = NoFrame /\ pivot = NoPivot /\ orig = <<>>
    /\ error = "none"

\* Two records of the accumulated list change places.
Permute ==
    /\ pc = "done"
    /\ \E i, j \in 1..Len(all_data) :
          /\ i < j
          /\ all_data[i] # all_data[j]
          /\ all_data' = [all_data EXCEPT ![i] = all_data[j],
                                          ![j] = all_data[i]]
    /\ UNCHANGED <<text, sections, date_str, fund_rows, text2, sections2, dir,
                   files, idx, df, pivot, orig, error, pc>>

NextAgg == ReturnFrame \/ Plot \/ PlotRaises \/ Permute

SpecAgg == InitAgg /\ [][NextAgg]_vars

----------------------------------------------------------------------------
(* Properties of list_csv_files and of the run (SpecRun).                  *)

\* portfolio_ + 8 digits + .csv
Conforming(name) ==
    /\ Len(name) = Len(NAME_PREFIX) + 8 + Len(CSV_SUFFIX)
    /\ SubSeq(name, 1, Len(NAME_PREFIX)) = NAME_PREFIX
    /\ \A k \in (Len(NAME_PREFIX) + 1)..(Len(NAME_PREFIX) + 8) : isdigit(name[k])
    /\ SubSeq(name, Len(NAME_PREFIX) + 9, Len(name)) = CSV_SUFFIX

\* The 8 digits of a conforming name, read as a number.
DateNumber(name) ==
    digits_value(SubSeq(name, Len(NAME_PREFIX) + 1, Len(NAME_PREFIX) + 8), 0)

ListedNames == {files[k] : k \in 1..Len(files)}

AscendingDates ==
    \A i, j \in 1..Len(files) :
        (i < j /\ Conforming(files[i]) /\ Conforming(files[j]))
            => DateNumber(files[i]) < DateNumber(files[j])

\* C6 as stated: list_csv_files returns exactly the files whose name follows
\* the convention portfolio_ + 8 digits + .csv, in ascending date order.
C6_OnlyConformingNames ==
    pc # "start" =>
        /\ ListedNames = {n \in DOMAIN dir : Conforming(n)}
        /\ AscendingDates

\* C6 amended: list_csv_files returns exactly the files whose name ends with
\* .csv, each once, in ascending order of name; the files among them that
\* follow the convention are in ascending date order.
C6_AllCsvNamesSorted ==
    pc # "start" =>
        /\ ListedNames = {n \in DOMAIN dir : endswith(n, CSV_SUFFIX)}
        /\ Len(files) = Cardinality(ListedNames)
        /\ \A k \in 1..(Len(files) - 1) : str_lt(files[k], files[k + 1])
        /\ AscendingDates

\* notes.csv is returned, before the two dated files; these are in date order.
C6_Witness ==
    /\ pc = "loop"
    /\ DOMAIN dir = {FILE_FEB, FILE_JAN, FILE_NOTES}
    /\ files = <<FILE_NOTES, FILE_JAN, FILE_FEB>>

\* C5 as stated: with no matching file the record set is empty and the
\* pivot step completes with an empty table, without an error.
C5_EmptyInputCompletes ==
    (files = <<>> /\ pc \in {"plot", "done", "aborted"}) =>
        /\ df.rows = <<>>
        /\ error = "none"
        /\ pc # "aborted"
        /\ pivot.index = <<>>

Unparseable(name) == file_date(name).exc # "none"

----------------------------------------------------------------------------
(* Properties of the aggregation (SpecAgg).                                *)

RECURSIVE SumAt(_, _)
SumAt(recs, K) ==
    IF K = {} THEN 0
    ELSE LET k == CHOOSE x \in K : TRUE
         IN  recs[k].eval_amount + SumAt(recs, K \ {k})

SeqToSet(q) == {q[k] : k \in 1..Len(q)}

\* C4: for a non-empty list of records the table is built, its rows are
\* exactly the distinct dates, its columns exactly the distinct funds, and
\* each cell is the sum of eval_amount over the records of that date and
\* fund (0 when there is none).
C4_TableIsGroupSum ==
    (df.rows # <<>> /\ pc \in {"done", "aborted"}) =>
        LET recs == df.rows
            dates == {recs[k].date : k \in 1..Len(recs)}
            funds == {recs[k].fund : k \in 1..Len(recs)}
        IN  /\ pc = "done"
            /\ SeqToSet(pivot.index) = dates
            /\ Len(pivot.index) = Cardinality(dates)
            /\ SeqToSet(pivot.columns) = funds
            /\ Len(pivot.columns) = Cardinality(funds)
            /\ DOMAIN pivot.cells = dates \X funds
            /\ \A d \in dates, f \in funds :
                  pivot.cells[<<d, f>>] =
                     SumAt(recs, {k \in 1..Len(recs) :
                                     recs[k].date = d /\ recs[k].fund = f})

\* Fund F twice on the first date (500 and 700) and fund G on the second:
\* the cell of F is 1200 on the first date and 0 on the second.
C4_Witness ==
    /\ pc = "done"
    /\ df.rows = <<[date |-> DATE_1, fund |-> <<"F">>, eval_amount |-> 500],
                   [date |-> DATE_1, fund |-> <<"F">>, eval_amount |-> 700],
                   [date |-> DATE_2, fund |-> <<"G">>, eval_amount |-> 500]>>
    /\ pivot.cells[<<DATE_1, <<"F">>>>] = 1200
    /\ pivot.cells[<<DATE_2, <<"F">>>>] = 0

\* C8: the table built from the records in any other order is the table
\* that was built.
C8_OrderIndependent ==
    pc = "done" => pivot_of(DataFrame(all_data)) = [exc |-> "none", val |-> pivot]

\* The two records of one (date, fund) group have changed places since the
\* table was built.
C8_Witness ==
    /\ pc = "done"
    /\ Len(orig) = 3
    /\ orig[1].date = orig[2].date /\ orig[1].fund = orig[2].fund
    /\ orig[1].eval_amount # orig[2].eval_amount
    /\ all_data[1] = orig[2] /\ all_data[2] = orig[1]

====
